---- MODULE Spec2Model ----
(***************************************************************************)
(* Model of the historical currency conversion service of the AIMS         *)
(* repository (django_currency_converter): the supported-currency          *)
(* registry, the durable and the ephemeral rate cache, the exchange rate   *)
(* resolver with its retry loop, the conversion engine and the batch       *)
(* conversion command.                                                     *)
(*                                                                         *)
(* Decimal rates are integers in units of 10^-7, money amounts are         *)
(* integers in cents.  A database table is the set of its rows; Django's   *)
(* cache is a function from the keys it holds to their values.             *)
(***************************************************************************)
EXTENDS Integers, Sequences, FiniteSets, TLC

VARIABLES
    registry,   \* SupportedCurrency table: rows [code, is_supported]
    ephList,    \* cache entry "exchange_rate_supported_currencies"; {} = no entry
    rateDb,     \* ExchangeRateCache table: rows [currency, date, rate_to_usd]
    ephRate,    \* cache entries "exchange_rate_<from>_<to>_<date>"
    today,      \* date.today()
    call,       \* the converter call in progress or just finished
    records,    \* Transaction table: id -> row
    batch,      \* the convert_currencies command run in progress or just finished
    writers     \* concurrent callers of get_exchange_rate: caller -> its position

vars == <<registry, ephList, rateDb, ephRate, today, call, records, batch, writers>>

----------------------------------------------------------------------------
(* Bounds of the model *)

MaxDate == 1            \* dates are 0..MaxDate; dates after today are future
MaxRecs == 3            \* transactions in the table
MaxBatchSize == 2       \* --batch-size values tried are 1..MaxBatchSize
NWriters == 2           \* concurrent callers of get_exchange_rate

(* Program constants *)

MAX_RETRIES == 3
RateScale == 10000000   \* Decimal('1.0') in units of 10^-7

----------------------------------------------------------------------------
(* Value domains *)

UCodes == {"USD", "EUR", "MMK"}          \* upper-case currency codes
RawCodes == UCodes \cup {"eur", "usd"}   \* codes as callers and the API spell them
ApiKeys == {"EUR", "MMK", "eur"}         \* keys the upstream 'rates' object may hold
Dates == 0..MaxDate
RawRates == {24, 30}                     \* rates the upstream may answer (0.0000024, 0.000003)
Amounts == {0 - 100, 0, 5000000}         \* amounts in cents (-1.00, 0.00, 50000.00)

NULL == 0 - 1       \* None: an absent amount, a null value_usd, exchange_rate_used
                    \* or usd_conversion_date

\* Amounts and rates of the conversion examples: no amount, 0.00, -5.00, 0.01 .. 0.30,
\* then 50.75, 100.00 and 1000.50; rates 0.85, 1.10 and 1.25
MoneyAmounts == {NULL, 0, 0 - 500, 1, 2, 5, 6, 10, 15, 17, 30, 5075, 10000, 100050}
MoneyRates == {8500000, 11000000, 12500000}

\* Mutant of upper: the code is left as it is spelled
upper_unchanged(code) == code

upper(code) ==
    CASE code = "eur" -> "EUR"
      [] code = "usd" -> "USD"
      [] OTHER -> code

DEFAULT_SUPPORTED_CURRENCIES == {"USD", "EUR"}   \* the default list, cut to the model's codes

RetNone == [kind |-> "None"]
RetRaised == [kind |-> "raised"]
RetRate(r) == [kind |-> "rate", v |-> r]
RetBool(b) == [kind |-> "bool", v |-> b]
RetList(l) == [kind |-> "list", v |-> l]

\* What one upstream request of _fetch_rate_from_api can lead to inside the try block:
\*   ok                a JSON object whose 'rates' holds a number for the target currency
\*   RequestException  session.get or raise_for_status raises one of requests' exceptions
\*                     (timeout, connection error, HTTP error status)
\*   OtherGetError     session.get raises an exception that is no RequestException, as
\*                     the mock of test_api_retry_mechanism does (Exception("Network error"))
\*   JSONDecodeError   the body is no JSON: response.json() raises
\*   missing_rate      a JSON object without a rate for the target currency
\*   ParseError        the rate is no number: Decimal(...) raises InvalidOperation
\*   BadShape          the body is JSON but no object, or its 'rates' is no container:
\*                     data.get or the "in" test raises AttributeError or TypeError
FailedRequests == {"RequestException", "OtherGetError"}
MalformedBodies == {"JSONDecodeError", "missing_rate", "ParseError", "BadShape"}
AttemptOutcomes ==
    {[kind |-> "ok", rate |-> r] : r \in RawRates} \cup
    {[kind |-> k] : k \in FailedRequests \cup MalformedBodies}

\* What the upstream answers to the currency-list request
ListAnswers ==
    {[ok |-> FALSE, keys |-> {}]} \cup {[ok |-> TRUE, keys |-> S] : S \in SUBSET ApiKeys}

----------------------------------------------------------------------------
(* SupportedCurrency model *)

get_supported_codes(reg) == {row.code : row \in {r \in reg : r.is_supported}}

RegistryCodes(reg) == {row.code : row \in reg}

\* Mutant of UpdateSupportedCurrencies: the rows the upstream no longer lists are deleted
UpdateSupportedCurrenciesDeleting(reg, currency_codes) ==
    {[code |-> upper(c), is_supported |-> TRUE] : c \in currency_codes}

\* Mark all rows unsupported, then update_or_create each code (upper-cased) as supported
UpdateSupportedCurrencies(reg, currency_codes) ==
    LET marked == {[code |-> row.code, is_supported |-> FALSE] : row \in reg}
        ups == {upper(c) : c \in currency_codes}
    IN  {row \in marked : row.code \notin ups} \cup
        {[code |-> c, is_supported |-> TRUE] : c \in ups}

\* Mutant of GetSupportedCurrencies: the fallback list is returned but not cached
GetSupportedCurrenciesFallbackUncached(reg, eph, refresh, ans) ==
    IF ~refresh /\ eph # {}
    THEN [list |-> eph, reg |-> reg, eph |-> eph, reqs |-> 0, failed |-> FALSE]
    ELSE IF ~refresh /\ get_supported_codes(reg) # {}
    THEN [list |-> get_supported_codes(reg), reg |-> reg,
          eph |-> get_supported_codes(reg), reqs |-> 0, failed |-> FALSE]
    ELSE IF ans.ok
    THEN [list |-> ans.keys \cup {"USD"},
          reg |-> UpdateSupportedCurrencies(reg, ans.keys \cup {"USD"}),
          eph |-> ans.keys \cup {"USD"}, reqs |-> 1, failed |-> FALSE]
    ELSE [list |-> DEFAULT_SUPPORTED_CURRENCIES,
          reg |-> UpdateSupportedCurrencies(reg, DEFAULT_SUPPORTED_CURRENCIES),
          eph |-> eph, reqs |-> 1, failed |-> TRUE]

\* get_supported_currencies: result list, new registry, new cache entry, upstream
\* requests made, and whether the request failed (the except branch was taken)
GetSupportedCurrencies(reg, eph, refresh, ans) ==
    IF ~refresh /\ eph # {}
    THEN [list |-> eph, reg |-> reg, eph |-> eph, reqs |-> 0, failed |-> FALSE]
    ELSE IF ~refresh /\ get_supported_codes(reg) # {}
    THEN [list |-> get_supported_codes(reg), reg |-> reg,
          eph |-> get_supported_codes(reg), reqs |-> 0, failed |-> FALSE]
    ELSE IF ans.ok
    THEN LET api_currencies == ans.keys \cup {"USD"}
         IN  [list |-> api_currencies,
              reg |-> UpdateSupportedCurrencies(reg, api_currencies),
              eph |-> api_currencies, reqs |-> 1, failed |-> FALSE]
    ELSE [list |-> DEFAULT_SUPPORTED_CURRENCIES,
          reg |-> UpdateSupportedCurrencies(reg, DEFAULT_SUPPORTED_CURRENCIES),
          eph |-> DEFAULT_SUPPORTED_CURRENCIES, reqs |-> 1, failed |-> TRUE]

\* is_currency_supported: result, and the effects of the list lookup it makes
IsCurrencySupported(reg, eph, currency_code, ans) ==
    IF upper(currency_code) = "USD"
    THEN [result |-> TRUE, reg |-> reg, eph |-> eph, reqs |-> 0, failed |-> FALSE]
    ELSE LET g == GetSupportedCurrencies(reg, eph, FALSE, ans)
         IN  [result |-> upper(currency_code) \in g.list,
              reg |-> g.reg, eph |-> g.eph, reqs |-> g.reqs, failed |-> g.failed]

----------------------------------------------------------------------------
(* ExchangeRateCache model and the memory cache *)

RateRows(db, currency, date) == {row \in db : row.currency = currency /\ row.date = date}

\* rate_to_usd is DecimalField(decimal_places=6): the values a rate can be stored as.
\* A tie at the 7th decimal is rounded half-even or half-up, depending on the database.
StoredValues(rate) ==
    LET down == rate - (rate % 10)
    IN  IF rate % 10 = 0 THEN {rate}
        ELSE IF rate % 10 < 5 THEN {down}
        ELSE IF rate % 10 > 5 THEN {down + 10}
        ELSE {down, down + 10}

\* Mutant of UniqueTogether: the table has no unique constraint
UniqueTogetherUnchecked(db, currency, date) == TRUE

\* unique_together = ('currency', 'date'): the constraint admits a new row of this key
UniqueTogether(db, currency, date) == RateRows(db, currency, date) = {}

\* INSERT of a row; the unique constraint is checked by the caller of this operator
InsertRate(db, currency, date, stored) ==
    db \cup {[currency |-> currency, date |-> date, rate_to_usd |-> stored]}

\* Mutant of UpsertRate: the row written replaces the whole table
UpsertRateEvicting(db, currency, date, stored) ==
    {[currency |-> currency, date |-> date, rate_to_usd |-> stored]}

\* Mutant of UpsertRate: get_or_create, which keeps the rate of an existing row
UpsertRateKeepsOld(db, currency, date, stored) ==
    IF RateRows(db, currency, date) # {} THEN db
    ELSE db \cup {[currency |-> currency, date |-> date, rate_to_usd |-> stored]}

\* update_or_create(currency=, date=, defaults={'rate_to_usd': rate})
UpsertRate(db, currency, date, stored) ==
    (db \ RateRows(db, currency, date)) \cup
        {[currency |-> currency, date |-> date, rate_to_usd |-> stored]}

CacheKey(from_currency, to_currency, date) == <<from_currency, to_currency, date>>

\* cache.set(key, float(rate)) and Decimal(str(cache.get(key))): a rate of at most
\* 15 significant digits survives the float round trip
FloatOf(rate) == rate
DecimalOfStr(f) == f

CacheSet(c, key, value) == [k \in DOMAIN c \cup {key} |-> IF k = key THEN value ELSE c[k]]

----------------------------------------------------------------------------
(* CurrencyConverter *)

\* Mutant of DurableLookup: the database lookup never finds a row
DurableLookupSkipped(db, currency, date) == {}

\* The database lookup of get_exchange_rate: ExchangeRateCache.objects.get(currency, date)
DurableLookup(db, currency, date) == RateRows(db, currency, date)

\* The memory-cache lookup of get_exchange_rate: cache.get(key), used when truthy
MemoryLookup(ephr, currency, date) ==
    LET key == CacheKey(currency, "USD", date)
    IN  IF key \in DOMAIN ephr /\ ephr[key] # 0 THEN {DecimalOfStr(ephr[key])} ELSE {}

\* The future-date guard of _fetch_rate_from_api
IsFutureDate(date_value, tday) == date_value > tday

\* get_exchange_rate(from_currency, 'USD', date_value) up to the call of
\* _fetch_rate_from_api: ret.kind = "fetch" means the retry loop is entered
ResolveRate(reg, eph, db, ephr, tday, from_currency, date_value, ans) ==
    LET from == upper(from_currency)
        s == IsCurrencySupported(reg, eph, from, ans)
        same == [reg |-> reg, eph |-> eph, reqs |-> 0, failed |-> FALSE]
        looked == [reg |-> s.reg, eph |-> s.eph, reqs |-> s.reqs, failed |-> s.failed]
    IN  IF from = "USD"
        THEN [ret |-> RetRate(RateScale)] @@ same
        ELSE IF ~s.result
        THEN [ret |-> RetNone] @@ looked
        ELSE IF DurableLookup(db, from, date_value) # {}
        THEN [ret |-> RetRate((CHOOSE row \in DurableLookup(db, from, date_value) : TRUE).rate_to_usd)]
                 @@ looked
        ELSE IF MemoryLookup(ephr, from, date_value) # {}
        THEN [ret |-> RetRate(CHOOSE r \in MemoryLookup(ephr, from, date_value) : TRUE)] @@ looked
        ELSE IF IsFutureDate(date_value, tday)
        THEN [ret |-> RetNone] @@ looked
        ELSE [ret |-> [kind |-> "fetch"]] @@ looked

\* The cache.get calls get_exchange_rate makes for a non-USD currency: one for the
\* currency list in get_supported_currencies, and one for the rate when the currency
\* was found supported and the database has no row
CacheReads(db, from_currency, date_value, supported) ==
    IF from_currency = "USD" THEN 0
    ELSE 1 + (IF supported /\ DurableLookup(db, from_currency, date_value) = {} THEN 1 ELSE 0)

\* The database queries get_exchange_rate makes at least: get_supported_codes when the
\* memory cache has no list, and the ExchangeRateCache lookup for a supported currency
DatabaseHits(eph, from_currency, supported) ==
    IF from_currency = "USD" THEN 0
    ELSE (IF eph = {} THEN 1 ELSE 0) + (IF supported THEN 1 ELSE 0)

\* Mutant of InvalidAmount: only an absent amount is rejected
InvalidAmountAbsentOnly(amount) == amount = NULL

\* if not amount or amount <= 0: None and Decimal('0') are falsy
InvalidAmount(amount) == amount = NULL \/ amount = 0 \/ amount <= 0

\* The cache.get calls and the database queries of convert_to_usd: none before the
\* call of get_exchange_rate, which the two early returns do not reach
ConvertCacheReads(amount, currency, db, date, supported) ==
    IF InvalidAmount(amount) \/ currency = "USD" THEN 0
    ELSE CacheReads(db, currency, date, supported)

ConvertDatabaseHits(amount, eph, currency, supported) ==
    IF InvalidAmount(amount) \/ currency = "USD" THEN 0
    ELSE DatabaseHits(eph, currency, supported)

\* Mutant of QuantizeCents: ties are rounded half-up
QuantizeCentsHalfUp(amount, rate) ==
    LET a1 == amount \div 10000
        a0 == amount % 10000
        r1 == rate \div 10000
        r0 == rate % 10000
        mid == a1 * r0 + a0 * r1
        low == (mid % 1000) * 10000 + a0 * r0
        q == a1 * r1 * 10 + (mid \div 1000) + (low \div RateScale)
        rem == low % RateScale
    IN  IF 2 * rem >= RateScale THEN q + 1 ELSE q

\* amount * exchange_rate, then usd_amount.quantize(Decimal('0.01')): cents times
\* units of 10^-7, rounded half-even to whole cents.  The product is formed from
\* four-digit limbs, so that no intermediate value leaves the range of 32-bit
\* integers (Decimal arithmetic is exact).
QuantizeCents(amount, rate) ==
    LET a1 == amount \div 10000
        a0 == amount % 10000
        r1 == rate \div 10000
        r0 == rate % 10000
        mid == a1 * r0 + a0 * r1
        low == (mid % 1000) * 10000 + a0 * r0
        q == a1 * r1 * 10 + (mid \div 1000) + (low \div RateScale)
        rem == low % RateScale
    IN  IF 2 * rem > RateScale \/ (2 * rem = RateScale /\ q % 2 = 1) THEN q + 1 ELSE q

\* The (usd_amount, exchange_rate) pair convert_to_usd returns for a resolved rate
ConvertResult(amount, ret) ==
    IF ret.kind = "rate"
    THEN [kind |-> "money", v |-> QuantizeCents(amount, ret.v)]
    ELSE ret

\* How the except clauses of the retry loop treat what an attempt raised.
\* requests' JSONDecodeError is a ValueError and, from requests 2.27 on, a
\* RequestException as well: which clause takes it depends on the installed version.
Handlers(kind) ==
    CASE kind = "ok" -> {"return_rate"}
      [] kind = "RequestException" -> {"retry"}
      [] kind = "missing_rate" -> {"return_none"}
      [] kind = "ParseError" -> {"return_none"}
      [] kind = "JSONDecodeError" -> {"retry", "return_none"}
      [] kind = "OtherGetError" -> {"propagate"}
      [] kind = "BadShape" -> {"propagate"}

----------------------------------------------------------------------------
(* The call in progress *)

IdleCall ==
    [op |-> "none", pc |-> "idle", caller |-> "none", code |-> "USD", date |-> 0,
     amount |-> 0, attempt |-> 0, ret |-> RetNone, usd |-> RetNone,
     rateReqs |-> 0, listReqs |-> 0, listFailed |-> FALSE, last |-> "none"]

NewCall(op, caller, code, date, amount) ==
    [IdleCall EXCEPT !.op = op, !.caller = caller, !.code = code, !.date = date,
                     !.amount = amount]

\* The call returns (or raises) ret
Complete(c, ret) ==
    [c EXCEPT !.pc = "done", !.ret = ret,
              !.usd = IF c.op = "convert_to_usd" THEN ConvertResult(c.amount, ret) ELSE RetNone]

\* The call goes on after the lookups of get_exchange_rate
Proceed(c, r) ==
    LET c1 == [c EXCEPT !.listReqs = r.reqs, !.listFailed = r.failed]
    IN  IF r.ret.kind = "fetch" THEN [c1 EXCEPT !.pc = "attempt"] ELSE Complete(c1, r.ret)

NoCallRunning == call.pc # "attempt"
NoBatchRunning == batch.pc \in {"idle", "ended"}

----------------------------------------------------------------------------
(* Operations of the service *)

\* converter.get_exchange_rate(code, 'USD', date)
CallGetExchangeRate(code, date, ans) ==
    /\ NoCallRunning /\ NoBatchRunning
    /\ LET r == ResolveRate(registry, ephList, rateDb, ephRate, today, code, date, ans)
       IN  /\ call' = Proceed(NewCall("get_exchange_rate", "user", upper(code), date, 0), r)
           /\ registry' = r.reg
           /\ ephList' = r.eph
    /\ UNCHANGED <<rateDb, ephRate, today, writers, records, batch>>

\* converter.convert_to_usd(amount, code, date)
CallConvertToUsd(amount, code, date, ans) ==
    /\ NoCallRunning /\ NoBatchRunning
    /\ LET c == NewCall("convert_to_usd", "user", upper(code), date, amount)
           r == ResolveRate(registry, ephList, rateDb, ephRate, today, code, date, ans)
       IN  IF InvalidAmount(amount)
           THEN /\ call' = [c EXCEPT !.pc = "done", !.ret = RetNone, !.usd = RetNone]
                /\ UNCHANGED <<registry, ephList>>
           ELSE IF upper(code) = "USD"
           THEN /\ call' = [c EXCEPT !.pc = "done", !.ret = RetRate(RateScale),
                                          !.usd = [kind |-> "money", v |-> amount]]
                /\ UNCHANGED <<registry, ephList>>
           ELSE /\ call' = Proceed(c, r)
                /\ registry' = r.reg
                /\ ephList' = r.eph
    /\ UNCHANGED <<rateDb, ephRate, today, writers, records, batch>>

\* converter._fetch_rate_from_api(code, 'USD', date), called directly
CallFetchRateFromApi(code, date) ==
    /\ NoCallRunning /\ NoBatchRunning
    /\ LET c == NewCall("_fetch_rate_from_api", "user", code, date, 0)
       IN  call' = IF IsFutureDate(date, today)
                   THEN Complete(c, RetNone)
                   ELSE [c EXCEPT !.pc = "attempt"]
    /\ UNCHANGED <<registry, ephList, rateDb, ephRate, today, writers, records, batch>>

\* One iteration of the retry loop of _fetch_rate_from_api: one upstream request
FetchAttempt(o) ==
    /\ call.pc = "attempt"
    /\ LET c == [call EXCEPT !.rateReqs = @ + 1, !.last = o.kind]
           key == CacheKey(call.code, "USD", call.date)
       IN  \E h \in Handlers(o.kind) :
              CASE h = "return_rate" ->
                     \E stored \in StoredValues(o.rate) :
                        /\ ephRate' = CacheSet(ephRate, key, FloatOf(o.rate))
                        /\ rateDb' = UpsertRate(rateDb, call.code, call.date, stored)
                        /\ call' = Complete(c, RetRate(o.rate))
                [] h = "retry" ->
                     /\ call' = IF call.attempt + 1 < MAX_RETRIES
                                THEN [c EXCEPT !.attempt = @ + 1]
                                ELSE Complete(c, RetNone)
                     /\ UNCHANGED <<rateDb, ephRate>>
                [] h = "return_none" ->
                     /\ call' = Complete(c, RetNone)
                     /\ UNCHANGED <<rateDb, ephRate>>
                [] OTHER ->
                     /\ call' = Complete(c, RetRaised)
                     /\ UNCHANGED <<rateDb, ephRate>>
    /\ UNCHANGED <<registry, ephList, today, writers, records, batch>>

\* converter.is_currency_supported(code)
CallIsCurrencySupported(code, ans) ==
    /\ NoCallRunning /\ NoBatchRunning
    /\ LET s == IsCurrencySupported(registry, ephList, code, ans)
       IN  /\ call' = [Complete(NewCall("is_currency_supported", "user", upper(code), 0, 0),
                                RetBool(s.result))
                          EXCEPT !.listReqs = s.reqs, !.listFailed = s.failed]
           /\ registry' = s.reg
           /\ ephList' = s.eph
    /\ UNCHANGED <<rateDb, ephRate, today, writers, records, batch>>

\* converter.get_supported_currencies(refresh)
CallGetSupportedCurrencies(refresh, ans) ==
    /\ NoCallRunning /\ NoBatchRunning
    /\ LET g == GetSupportedCurrencies(registry, ephList, refresh, ans)
           op == IF refresh THEN "refresh_supported_currencies" ELSE "get_supported_currencies"
       IN  /\ call' = [Complete(NewCall(op, "user", "USD", 0, 0), RetList(g.list))
                          EXCEPT !.listReqs = g.reqs, !.listFailed = g.failed]
           /\ registry' = g.reg
           /\ ephList' = g.eph
    /\ UNCHANGED <<rateDb, ephRate, today, writers, records, batch>>

\* The change form of SupportedCurrencyAdmin: is_supported of an existing row is edited
AdminChangeSupportedCurrency(code, flag) ==
    /\ NoCallRunning /\ NoBatchRunning
    /\ code \in RegistryCodes(registry)
    /\ registry' = {row \in registry : row.code # code} \cup
                       {[code |-> code, is_supported |-> flag]}
    /\ call' = IdleCall
    /\ UNCHANGED <<ephList, rateDb, ephRate, today, writers, records, batch>>

\* ExchangeRateCache.objects.create(currency, date=today, rate_to_usd): a raw insert,
\* which the unique constraint rejects with an IntegrityError when the key has a row
CreateExchangeRateCache(currency, rate) ==
    /\ NoCallRunning /\ NoBatchRunning
    /\ LET c == NewCall("create", "user", currency, today, 0)
       IN  IF UniqueTogether(rateDb, currency, today)
           THEN /\ \E stored \in StoredValues(rate) :
                      rateDb' = InsertRate(rateDb, currency, today, stored)
                /\ call' = Complete(c, RetNone)
           ELSE /\ rateDb' = rateDb
                /\ call' = Complete(c, RetRaised)
    /\ UNCHANGED <<registry, ephList, ephRate, today, writers, records, batch>>

\* A memory-cache entry reaches CACHE_TIMEOUT and is dropped
CacheExpire ==
    /\ NoCallRunning /\ NoBatchRunning
    /\ \/ /\ ephList # {}
          /\ ephList' = {}
          /\ UNCHANGED ephRate
       \/ /\ \E key \in DOMAIN ephRate :
                ephRate' = [k \in DOMAIN ephRate \ {key} |-> ephRate[k]]
          /\ UNCHANGED ephList
    /\ call' = IdleCall
    /\ UNCHANGED <<registry, rateDb, today, writers, records, batch>>

----------------------------------------------------------------------------
(* Transaction records (TransactionCurrencyMixin and the fields it works on) *)

\* A transaction that was never converted: value 50000.00, dated today
PendingRecord(currency) ==
    [currency |-> currency, transaction_date |-> 0, value |-> 5000000,
     value_usd |-> NULL, usd_convertible |-> TRUE, usd_conversion_date |-> NULL,
     exchange_rate_used |-> NULL]

\* Mutant of mark_unconvertible: the conversion of the record is cleared as well
mark_unconvertible_clearing(txn, now) ==
    [txn EXCEPT !.usd_convertible = FALSE, !.usd_conversion_date = now,
                !.value_usd = NULL, !.exchange_rate_used = NULL]

\* mark_unconvertible(): saves usd_convertible and usd_conversion_date only
mark_unconvertible(txn, now) ==
    [txn EXCEPT !.usd_convertible = FALSE, !.usd_conversion_date = now]

\* Mutant of set_usd_value: the rate used is not recorded
set_usd_value_without_rate(txn, usd_amount, stored_rate, now) ==
    [txn EXCEPT !.value_usd = usd_amount, !.usd_conversion_date = now,
                !.usd_convertible = TRUE]

\* Mutant of set_usd_value: a record that holds a conversion keeps it
set_usd_value_once(txn, usd_amount, stored_rate, now) ==
    IF txn.value_usd # NULL THEN txn
    ELSE [txn EXCEPT !.value_usd = usd_amount, !.exchange_rate_used = stored_rate,
                     !.usd_conversion_date = now, !.usd_convertible = TRUE]

\* set_usd_value(usd_amount, exchange_rate): exchange_rate_used has 6 decimal places
set_usd_value(txn, usd_amount, stored_rate, now) ==
    [txn EXCEPT !.value_usd = usd_amount, !.exchange_rate_used = stored_rate,
                !.usd_conversion_date = now, !.usd_convertible = TRUE]

\* The records a table can hold when the command starts: pending ones of each
\* currency, a converted one, an unconvertible one, and a pending one dated in the future
InitialRecords ==
    {PendingRecord(c) : c \in UCodes} \cup
    {set_usd_value(PendingRecord("EUR"), 15, 30, 0),
     mark_unconvertible(PendingRecord("MMK"), 0),
     [PendingRecord("EUR") EXCEPT !.transaction_date = MaxDate]}

\* filters['value__gt'] = 0, and value_usd__isnull=True unless --force
Matches(txn, force) == txn.value > 0 /\ (force \/ txn.value_usd = NULL)

MatchingIds(recs, force) == {i \in DOMAIN recs : Matches(recs[i], force)}

RECURSIVE SortedIds(_)
SortedIds(S) ==
    IF S = {} THEN <<>>
    ELSE LET first == CHOOSE x \in S : \A y \in S : x <= y
         IN  <<first>> \o SortedIds(S \ {first})

\* transactions_qs[lo:hi], evaluated against the table as it is now; the rows come
\* in primary-key order
QuerySlice(recs, force, lo, hi) ==
    LET q == SortedIds(MatchingIds(recs, force))
        last == IF hi < Len(q) THEN hi ELSE Len(q)
    IN  IF lo + 1 > last THEN <<>> ELSE SubSeq(q, lo + 1, last)

\* if txn.value_usd and not self.force: a value_usd of 0.00 is falsy
AlreadyConverted(txn, force) == txn.value_usd # NULL /\ txn.value_usd # 0 /\ ~force

\* Mutant of SkipsRecord: no record is skipped
SkipsRecordNever(txn, force) == FALSE

\* The two early returns of _convert_transaction
SkipsRecord(txn, force) == txn.currency = "USD" \/ AlreadyConverted(txn, force)

\* The counts of the conversion_stats view over the table
conversion_stats(recs) ==
    LET base_qs == DOMAIN recs
    IN  [total_transactions |-> Cardinality(base_qs),
         converted_transactions |->
            Cardinality({i \in base_qs : recs[i].value_usd # NULL /\ recs[i].currency # "USD"}),
         unconvertible_transactions |->
            Cardinality({i \in base_qs : ~recs[i].usd_convertible}),
         usd_transactions |->
            Cardinality({i \in base_qs : recs[i].currency = "USD"}),
         pending_transactions |->
            Cardinality({i \in base_qs : /\ recs[i].value_usd = NULL
                                         /\ recs[i].usd_convertible
                                         /\ recs[i].currency # "USD"})]

----------------------------------------------------------------------------
(* The convert_currencies command *)

IdleBatch ==
    [pc |-> "idle", force |-> FALSE, dry_run |-> FALSE, batch_size |-> 1,
     total_count |-> 0, batch_start |-> 0, slice |-> <<>>, sliceLen |-> 0,
     processed |-> 0, converted |-> 0, skipped |-> 0, errors |-> 0,
     batch_converted |-> 0, batch_skipped |-> 0, batch_errors |-> 0,
     report |-> "none", preview |-> <<>>, interrupted |-> FALSE,
     matched |-> {}, supported |-> {}, times |-> <<>>, upstreamErrors |-> FALSE,
     mode |-> "command", clock |-> 1,
     did |-> [op |-> "none", id |-> 0, amount |-> 0, rate |-> 0], errored |-> {}]

Init ==
    /\ registry = {}
    /\ ephList = {}
    /\ rateDb = {}
    /\ ephRate = <<>>
    /\ today = 0
    /\ call = IdleCall
    /\ records = <<>>
    /\ batch = IdleBatch
    /\ writers = <<>>

\* The upstream's answer is an input of an operation only when the operation asks:
\* the currency list is requested on a refresh, or when neither the memory cache nor
\* the registry holds a supported code
AsksUpstreamList(code, refresh) ==
    \/ refresh
    \/ upper(code) # "USD" /\ ephList = {} /\ get_supported_codes(registry) = {}

AnswersFor(code, refresh) ==
    IF AsksUpstreamList(code, refresh) THEN ListAnswers ELSE {[ok |-> FALSE, keys |-> {}]}

Next ==
    \/ \E code \in RawCodes, date \in Dates : \E ans \in AnswersFor(code, FALSE) :
          CallGetExchangeRate(code, date, ans)
    \/ \E amount \in Amounts, code \in RawCodes, date \in Dates :
          \E ans \in AnswersFor(code, FALSE) : CallConvertToUsd(amount, code, date, ans)
    \/ \E code \in UCodes \ {"USD"}, date \in Dates : CallFetchRateFromApi(code, date)
    \/ \E o \in AttemptOutcomes : FetchAttempt(o)
    \/ \E code \in RawCodes : \E ans \in AnswersFor(code, FALSE) :
          CallIsCurrencySupported(code, ans)
    \/ \E refresh \in BOOLEAN : \E ans \in AnswersFor("EUR", refresh) :
          CallGetSupportedCurrencies(refresh, ans)
    \/ \E code \in UCodes, flag \in BOOLEAN : AdminChangeSupportedCurrency(code, flag)
    \/ CacheExpire
    \/ \E currency \in UCodes \ {"USD"}, rate \in RawRates :
          CreateExchangeRateCache(currency, rate)

Spec == Init /\ [][Next]_vars

----------------------------------------------------------------------------
(* convert_to_usd over the amounts and rates of the conversion examples: the durable
   cache holds today's EUR rate, as after setUp of the tests *)

InitConvert ==
    /\ registry = {[code |-> "USD", is_supported |-> TRUE],
                   [code |-> "EUR", is_supported |-> TRUE],
                   [code |-> "MMK", is_supported |-> FALSE]}
    /\ ephList \in {{}, {"EUR", "USD"}}
    /\ \E rate \in MoneyRates :
          rateDb = {[currency |-> "EUR", date |-> 0, rate_to_usd |-> rate]}
    /\ ephRate = <<>>
    /\ today = 0
    /\ call = IdleCall
    /\ records = <<>>
    /\ batch = IdleBatch
    /\ writers = <<>>

NextConvert ==
    \E amount \in MoneyAmounts, code \in RawCodes, date \in Dates :
       \E ans \in AnswersFor(code, FALSE) : CallConvertToUsd(amount, code, date, ans)

SpecConvert == InitConvert /\ [][NextConvert]_vars

----------------------------------------------------------------------------
(* Steps of the convert_currencies command *)

\* The status _preview_conversions prints for a record
PreviewStatus(txn, force, supported) ==
    IF txn.currency = "USD" THEN "SKIP (already USD)"
    ELSE IF txn.currency \notin supported THEN "SKIP (unsupported currency)"
    ELSE IF AlreadyConverted(txn, force) THEN "SKIP (already converted)"
    ELSE "CONVERT"

\* handle(): the optional refresh, the query, and the dry-run preview or the start
\* of the batch loop.  One run of the command is followed from its start to its end.
BatchHandle(refresh_currencies, force, dry_run, batch_size, ans) ==
    /\ NoCallRunning
    /\ batch.pc = "idle"
    /\ LET g == IF refresh_currencies
                THEN GetSupportedCurrencies(registry, ephList, TRUE, ans)
                ELSE [list |-> {}, reg |-> registry, eph |-> ephList, reqs |-> 0,
                      failed |-> FALSE]
           h == GetSupportedCurrencies(g.reg, g.eph, FALSE, ans)
           ids == SortedIds(MatchingIds(records, force))
           b == [IdleBatch EXCEPT !.force = force, !.dry_run = dry_run,
                                  !.batch_size = batch_size, !.total_count = Len(ids),
                                  !.matched = MatchingIds(records, force),
                                  !.supported = h.list,
                                  !.times = [i \in DOMAIN records |-> 0],
                                  !.upstreamErrors = g.failed]
           asks == \E i \in MatchingIds(records, force) : records[i].currency # "USD"
       IN  IF Len(ids) = 0
           THEN /\ batch' = [b EXCEPT !.pc = "ended", !.report = "no_transactions"]
                /\ registry' = g.reg
                /\ ephList' = g.eph
           ELSE IF dry_run
           THEN /\ batch' = [b EXCEPT !.pc = "ended", !.report = "preview",
                                      !.preview = [n \in DOMAIN ids |->
                                          PreviewStatus(records[ids[n]], force, h.list)]]
                /\ registry' = IF asks THEN h.reg ELSE g.reg
                /\ ephList' = IF asks THEN h.eph ELSE g.eph
           ELSE /\ batch' = [b EXCEPT !.pc = "loop"]
                /\ registry' = g.reg
                /\ ephList' = g.eph
    /\ call' = IdleCall
    /\ UNCHANGED <<rateDb, ephRate, today, writers, records>>

\* for batch_start in range(0, total_count, batch_size): the next slice of the
\* queryset is taken (and evaluated when _process_batch iterates it), or the loop ends
\* and the summary is written
BatchLoop ==
    /\ batch.pc = "loop"
    /\ batch' =
          IF batch.batch_start < batch.total_count
          THEN LET sl == QuerySlice(records, batch.force, batch.batch_start,
                                    batch.batch_start + batch.batch_size)
               IN  [batch EXCEPT !.pc = "batch", !.slice = sl, !.sliceLen = Len(sl),
                                 !.batch_converted = 0, !.batch_skipped = 0,
                                 !.batch_errors = 0]
          ELSE [batch EXCEPT !.pc = "ended", !.report = "summary"]
    /\ UNCHANGED <<registry, ephList, rateDb, ephRate, today, writers, call, records>>

\* _process_batch returns: its counts are added to the totals of handle()
BatchEnd ==
    /\ batch.mode = "command"
    /\ batch.pc = "batch"
    /\ batch.slice = <<>>
    /\ batch' = [batch EXCEPT !.pc = "loop",
                              !.converted = @ + batch.batch_converted,
                              !.skipped = @ + batch.batch_skipped,
                              !.errors = @ + batch.batch_errors,
                              !.processed = @ + batch.sliceLen,
                              !.batch_start = @ + batch.batch_size]
    /\ UNCHANGED <<registry, ephList, rateDb, ephRate, today, writers, call, records>>

\* What was done to the record at the head of the slice: "skip" (nothing),
\* "mark_unconvertible", "set_usd_value" (with its arguments) or "error" (an exception
\* was counted; errored collects these records).  timezone.now() moves on with every
\* save.
Did(b, op, amount, rate) ==
    [b EXCEPT !.did = [op |-> op, id |-> Head(b.slice), amount |-> amount, rate |-> rate],
              !.clock = IF op \in {"mark_unconvertible", "set_usd_value"} THEN @ + 1 ELSE @,
              !.errored = IF op = "error" THEN @ \cup {Head(b.slice)} ELSE @]

\* The loop of _process_batch goes on to the next record of the slice
NextRecord(b, result) ==
    [b EXCEPT !.pc = "batch", !.slice = Tail(@),
              !.times[Head(b.slice)] = @ + 1,
              !.batch_converted = IF result = "converted" THEN @ + 1 ELSE @,
              !.batch_skipped = IF result = "skipped" THEN @ + 1 ELSE @,
              !.batch_errors = IF result = "error" THEN @ + 1 ELSE @]

\* _convert_transaction(txn) up to the call of converter.convert_to_usd
BatchConvertTransaction(ans) ==
    /\ batch.mode = "command"
    /\ batch.pc = "batch"
    /\ batch.slice # <<>>
    /\ LET id == Head(batch.slice)
           txn == records[id]
           s == IsCurrencySupported(registry, ephList, txn.currency, ans)
           r == ResolveRate(s.reg, s.eph, rateDb, ephRate, today, txn.currency,
                            txn.transaction_date, ans)
           c == NewCall("convert_to_usd", "batch", txn.currency, txn.transaction_date,
                        txn.value)
           b == [batch EXCEPT !.upstreamErrors = @ \/ s.failed \/ r.failed]
       IN  IF SkipsRecord(txn, batch.force)
           THEN /\ batch' = NextRecord(Did(batch, "skip", 0, 0), "skipped")
                /\ UNCHANGED <<registry, ephList, call, records>>
           ELSE IF ~s.result
           THEN /\ batch' = NextRecord(Did([batch EXCEPT !.upstreamErrors = @ \/ s.failed],
                                           "mark_unconvertible", 0, 0), "skipped")
                /\ records' = [records EXCEPT
                                 ![id] = mark_unconvertible(txn, batch.clock)]
                /\ registry' = s.reg
                /\ ephList' = s.eph
                /\ UNCHANGED call
           ELSE /\ batch' = [b EXCEPT !.pc = "converting"]
                /\ call' = IF InvalidAmount(txn.value)
                           THEN [c EXCEPT !.pc = "done", !.ret = RetNone, !.usd = RetNone]
                           ELSE Proceed(c, r)
                /\ registry' = r.reg
                /\ ephList' = r.eph
                /\ UNCHANGED records
    /\ UNCHANGED <<rateDb, ephRate, today, writers>>

\* converter.convert_to_usd has returned or raised: the record is marked
\* unconvertible or gets its USD value, or the exception is counted as an error
FinishRecord ==
    /\ batch.pc = "converting"
    /\ call.pc = "done"
    /\ LET id == Head(batch.slice)
           txn == records[id]
           b == [batch EXCEPT !.upstreamErrors =
                    @ \/ call.rateReqs > 1 \/ call.last \notin {"none", "ok"}]
       IN  IF call.ret.kind = "raised"
           THEN /\ batch' = NextRecord(Did(b, "error", 0, 0), "error")
                /\ UNCHANGED records
           ELSE IF call.usd.kind # "money"
           THEN /\ batch' = NextRecord(Did(b, "mark_unconvertible", 0, 0), "skipped")
                /\ records' = [records EXCEPT
                                 ![id] = mark_unconvertible(txn, batch.clock)]
           ELSE /\ batch' = NextRecord(Did(b, "set_usd_value", call.usd.v, call.ret.v),
                                       "converted")
                /\ \E stored \in StoredValues(call.ret.v) :
                      records' = [records EXCEPT
                         ![id] = set_usd_value(txn, call.usd.v, stored, batch.clock)]
    /\ call' = IdleCall
    /\ UNCHANGED <<registry, ephList, rateDb, ephRate, today, writers>>

\* The rest of _convert_transaction and the try/except of _process_batch around it
BatchFinishTransaction == batch.mode = "command" /\ FinishRecord

\* KeyboardInterrupt: the loop is left, the counts of the slice in progress are
\* lost, and the summary is written
BatchInterrupt ==
    /\ batch.mode = "command"
    /\ batch.pc \in {"loop", "batch", "converting"}
    /\ batch' = [batch EXCEPT !.pc = "ended", !.report = "summary", !.interrupted = TRUE]
    /\ call' = IdleCall
    /\ UNCHANGED <<registry, ephList, rateDb, ephRate, today, writers, records>>

----------------------------------------------------------------------------
(* On-demand conversion: the convert_transactions view and the admin actions *)

OnDemandModes == {"api", "admin"}

\* The run starts its loop over the records of the queryset
OnDemandRun(mode, force, found, transactions, ans) ==
    [IdleBatch EXCEPT !.mode = mode, !.pc = "batch", !.force = force,
                      !.total_count = found,
                      !.slice = SortedIds(transactions), !.sliceLen = Cardinality(transactions),
                      !.matched = transactions,
                      !.supported = GetSupportedCurrencies(registry, ephList, FALSE, ans).list,
                      !.times = [i \in DOMAIN records |-> 0]]

\* POST convert_transactions {transaction_ids, force_reconvert}: the queryset
ApiConvertTransactions(transaction_ids, force_reconvert, ans) ==
    /\ NoCallRunning
    /\ batch.pc = "idle"
    /\ LET transactions_qs ==
              {i \in transaction_ids \cap DOMAIN records :
                  force_reconvert \/ records[i].value_usd = NULL}
           transactions == {i \in transactions_qs : records[i].currency # "USD"}
       IN  batch' = OnDemandRun("api", force_reconvert, Cardinality(transactions_qs),
                                transactions, ans)
    /\ call' = IdleCall
    /\ UNCHANGED <<registry, ephList, rateDb, ephRate, today, writers, records>>

\* TransactionAdmin.convert_to_usd on the selected records: the queryset, and the
\* warning when it is empty
AdminConvertToUsd(queryset, ans) ==
    /\ NoCallRunning
    /\ batch.pc = "idle"
    /\ LET convertible_transactions ==
              {i \in queryset : /\ records[i].value_usd = NULL
                                /\ records[i].value > 0
                                /\ records[i].currency # "USD"}
           b == OnDemandRun("admin", FALSE, Cardinality(convertible_transactions),
                            convertible_transactions, ans)
       IN  batch' = IF convertible_transactions = {}
                    THEN [b EXCEPT !.pc = "ended", !.report = "no_transactions"]
                    ELSE b
    /\ call' = IdleCall
    /\ UNCHANGED <<registry, ephList, rateDb, ephRate, today, writers, records>>

\* The body of the loop over the records up to the call of converter.convert_to_usd
OnDemandConvertRecord(ans) ==
    /\ batch.mode \in OnDemandModes
    /\ batch.pc = "batch"
    /\ batch.slice # <<>>
    /\ LET id == Head(batch.slice)
           txn == records[id]
           s == IsCurrencySupported(registry, ephList, txn.currency, ans)
           r == ResolveRate(s.reg, s.eph, rateDb, ephRate, today, txn.currency,
                            txn.transaction_date, ans)
           c == NewCall("convert_to_usd", "batch", txn.currency, txn.transaction_date,
                        txn.value)
       IN  IF ~s.result
           THEN /\ batch' = NextRecord(Did([batch EXCEPT !.upstreamErrors = @ \/ s.failed],
                                           "mark_unconvertible", 0, 0), "skipped")
                /\ records' = [records EXCEPT
                                 ![id] = mark_unconvertible(txn, batch.clock)]
                /\ registry' = s.reg
                /\ ephList' = s.eph
                /\ UNCHANGED call
           ELSE /\ batch' = [batch EXCEPT !.pc = "converting",
                                          !.upstreamErrors = @ \/ s.failed \/ r.failed]
                /\ call' = IF InvalidAmount(txn.value)
                           THEN [c EXCEPT !.pc = "done", !.ret = RetNone, !.usd = RetNone]
                           ELSE Proceed(c, r)
                /\ registry' = r.reg
                /\ ephList' = r.eph
                /\ UNCHANGED records
    /\ UNCHANGED <<rateDb, ephRate, today, writers>>

\* The rest of the loop body and the except clause around it
OnDemandFinishRecord == batch.mode \in OnDemandModes /\ FinishRecord

\* The loop is over: the response, or the admin's summary messages
OnDemandRespond ==
    /\ batch.mode \in OnDemandModes
    /\ batch.pc = "batch"
    /\ batch.slice = <<>>
    /\ batch' = [batch EXCEPT !.pc = "ended", !.report = "response",
                              !.converted = batch.batch_converted,
                              !.skipped = batch.batch_skipped,
                              !.errors = batch.batch_errors,
                              !.processed = batch.sliceLen]
    /\ UNCHANGED <<registry, ephList, rateDb, ephRate, today, writers, call, records>>

\* TransactionAdmin.mark_unconvertible on the selected records: one UPDATE
AdminMarkUnconvertible(queryset) ==
    /\ NoCallRunning
    /\ batch.pc = "idle"
    /\ records' = [i \in DOMAIN records |->
                      IF i \in queryset THEN mark_unconvertible(records[i], batch.clock)
                      ELSE records[i]]
    /\ batch' = [IdleBatch EXCEPT !.mode = "admin_mark", !.pc = "ended",
                                  !.report = "message", !.matched = queryset,
                                  !.total_count = Cardinality(queryset),
                                  !.clock = batch.clock + 1,
                                  !.times = [i \in DOMAIN records |-> 0]]
    /\ call' = IdleCall
    /\ UNCHANGED <<registry, ephList, rateDb, ephRate, today, writers>>

----------------------------------------------------------------------------
\* The table, the registry and the clock when the command is run
InitBatch ==
    /\ registry = {[code |-> "USD", is_supported |-> TRUE],
                   [code |-> "EUR", is_supported |-> TRUE],
                   [code |-> "MMK", is_supported |-> FALSE]}
    /\ ephList = {}
    /\ rateDb = {}
    /\ ephRate = <<>>
    /\ today = 0
    /\ call = IdleCall
    /\ \E n \in 0..MaxRecs : records \in [1..n -> InitialRecords]
    /\ batch = IdleBatch
    /\ writers = <<>>

NextBatch ==
    \/ \E refresh_currencies \in BOOLEAN, force \in BOOLEAN, dry_run \in BOOLEAN,
          batch_size \in 1..MaxBatchSize :
          \E ans \in AnswersFor("EUR", refresh_currencies) :
             BatchHandle(refresh_currencies, force, dry_run, batch_size, ans)
    \/ BatchLoop
    \/ \E ans \in AnswersFor("EUR", FALSE) : BatchConvertTransaction(ans)
    \/ \E o \in AttemptOutcomes : FetchAttempt(o)
    \/ BatchFinishTransaction
    \/ BatchEnd
    \/ BatchInterrupt
    \/ \E transaction_ids \in SUBSET DOMAIN records \ {{}}, force_reconvert \in BOOLEAN :
          \E ans \in AnswersFor("EUR", FALSE) :
             ApiConvertTransactions(transaction_ids, force_reconvert, ans)
    \/ \E queryset \in SUBSET DOMAIN records \ {{}} :
          \E ans \in AnswersFor("EUR", FALSE) : AdminConvertToUsd(queryset, ans)
    \/ \E ans \in AnswersFor("EUR", FALSE) : OnDemandConvertRecord(ans)
    \/ OnDemandFinishRecord
    \/ OnDemandRespond
    \/ \E queryset \in SUBSET DOMAIN records \ {{}} : AdminMarkUnconvertible(queryset)

SpecBatch == InitBatch /\ [][NextBatch]_vars

----------------------------------------------------------------------------
(* Concurrent callers of get_exchange_rate for one (currency, date).  The statements
   of _fetch_rate_from_api interleave; update_or_create is followed through the steps
   the ORM takes: get, create inside a savepoint, and after an IntegrityError get again
   and save. *)

RaceCurrency == "EUR"
RaceDate == 0

IdleWriter ==
    [pc |-> "idle", rate |-> 0, stored |-> 0, ret |-> RetNone, upserted |-> 0,
     conflicts |-> 0]

\* Mutant of OnIntegrityError: the IntegrityError of the INSERT is raised to the caller
OnIntegrityErrorRaise == "raise"

\* get_or_create catches the IntegrityError of its INSERT and looks the row up again
OnIntegrityError == "get_again"

\* The position of this upsert among the upserts done so far
UpsertOrder == Cardinality({v \in DOMAIN writers : writers[v].upserted > 0}) + 1

\* get_exchange_rate(RaceCurrency, 'USD', RaceDate) up to the upstream request
WriterCall(w, ans) ==
    /\ writers[w].pc = "idle"
    /\ LET r == ResolveRate(registry, ephList, rateDb, ephRate, today, RaceCurrency,
                            RaceDate, ans)
       IN  /\ writers' = [writers EXCEPT ![w] =
                            IF r.ret.kind = "fetch" THEN [@ EXCEPT !.pc = "request"]
                            ELSE [@ EXCEPT !.pc = "done", !.ret = r.ret]]
           /\ registry' = r.reg
           /\ ephList' = r.eph
    /\ UNCHANGED <<rateDb, ephRate, today, call, records, batch>>

\* The upstream answers a rate; it is put into the memory cache
WriterRequest(w, rate) ==
    /\ writers[w].pc = "request"
    /\ \E stored \in StoredValues(rate) :
          writers' = [writers EXCEPT ![w] = [@ EXCEPT !.pc = "get", !.rate = rate,
                                                      !.stored = stored]]
    /\ ephRate' = CacheSet(ephRate, CacheKey(RaceCurrency, "USD", RaceDate), FloatOf(rate))
    /\ UNCHANGED <<registry, ephList, rateDb, today, call, records, batch>>

\* update_or_create: the first lookup of the row
WriterGet(w) ==
    /\ writers[w].pc = "get"
    /\ writers' = [writers EXCEPT ![w].pc =
                      IF RateRows(rateDb, RaceCurrency, RaceDate) # {} THEN "save"
                      ELSE "create"]
    /\ UNCHANGED <<registry, ephList, rateDb, ephRate, today, call, records, batch>>

\* update_or_create: the INSERT; the unique constraint rejects a second row
WriterCreate(w) ==
    /\ writers[w].pc = "create"
    /\ IF RateRows(rateDb, RaceCurrency, RaceDate) = {}
       THEN /\ rateDb' = InsertRate(rateDb, RaceCurrency, RaceDate, writers[w].stored)
            /\ writers' = [writers EXCEPT ![w] =
                              [@ EXCEPT !.pc = "done", !.ret = RetRate(writers[w].rate),
                                        !.upserted = UpsertOrder]]
       ELSE /\ writers' = [writers EXCEPT ![w] =
                              IF OnIntegrityError = "get_again"
                              THEN [@ EXCEPT !.pc = "get_again", !.conflicts = 1]
                              ELSE [@ EXCEPT !.pc = "done", !.ret = RetRaised,
                                             !.conflicts = 1]]
            /\ UNCHANGED rateDb
    /\ UNCHANGED <<registry, ephList, ephRate, today, call, records, batch>>

\* update_or_create: the lookup after the IntegrityError; the error is raised again
\* when the row is not there
WriterGetAgain(w) ==
    /\ writers[w].pc = "get_again"
    /\ writers' = [writers EXCEPT ![w] =
                      IF RateRows(rateDb, RaceCurrency, RaceDate) # {}
                      THEN [@ EXCEPT !.pc = "save"]
                      ELSE [@ EXCEPT !.pc = "done", !.ret = RetRaised]]
    /\ UNCHANGED <<registry, ephList, rateDb, ephRate, today, call, records, batch>>

\* update_or_create: the row that was found is saved with the new rate
WriterSave(w) ==
    /\ writers[w].pc = "save"
    /\ rateDb' = UpsertRate(rateDb, RaceCurrency, RaceDate, writers[w].stored)
    /\ writers' = [writers EXCEPT ![w] =
                      [@ EXCEPT !.pc = "done", !.ret = RetRate(writers[w].rate),
                                !.upserted = UpsertOrder]]
    /\ UNCHANGED <<registry, ephList, ephRate, today, call, records, batch>>

InitRace ==
    /\ registry = {[code |-> "USD", is_supported |-> TRUE],
                   [code |-> "EUR", is_supported |-> TRUE]}
    /\ ephList = {}
    /\ rateDb \in {{}, {[currency |-> "MMK", date |-> RaceDate, rate_to_usd |-> 30]}}
    /\ ephRate = <<>>
    /\ today = 0
    /\ call = IdleCall
    /\ records = <<>>
    /\ batch = IdleBatch
    /\ writers = [w \in 1..NWriters |-> IdleWriter]

NextRace ==
    \/ \E w \in DOMAIN writers : \E ans \in AnswersFor(RaceCurrency, FALSE) : WriterCall(w, ans)
    \/ \E w \in DOMAIN writers, rate \in RawRates : WriterRequest(w, rate)
    \/ \E w \in DOMAIN writers : WriterGet(w)
    \/ \E w \in DOMAIN writers : WriterCreate(w)
    \/ \E w \in DOMAIN writers : WriterGetAgain(w)
    \/ \E w \in DOMAIN writers : WriterSave(w)

SpecRace == InitRace /\ [][NextRace]_vars

----------------------------------------------------------------------------
(* Steps of the service, as the properties below name them *)

ResolverOps == {"get_exchange_rate", "convert_to_usd"}
FetchOps == ResolverOps \cup {"_fetch_rate_from_api"}

\* This step is the call of operation op (call' is the call it starts)
Starts(op) == call.pc # "attempt" /\ call'.op = op

\* This step calls get_exchange_rate, directly or from convert_to_usd with an amount > 0
StartsResolver ==
    /\ call.pc # "attempt"
    /\ call'.op \in ResolverOps
    /\ call'.op = "convert_to_usd" => call'.amount > 0

\* The rows of the durable cache other than the one of (currency, date)
OtherRows(db, currency, date) == db \ RateRows(db, currency, date)

\* The memory rate cache without the entry of (currency, date)
OtherEntries(ephr, currency, date) ==
    [k \in DOMAIN ephr \ {CacheKey(currency, "USD", date)} |-> ephr[k]]

----------------------------------------------------------------------------
(* C1  Cache precedence.  When get_exchange_rate(c, 'USD', D) is called (directly or
   by convert_to_usd) for a non-USD currency c that the call finds supported, and the
   durable cache holds a row (c, D) with rate r, the call returns r at once and makes
   no upstream rate request, whatever the memory cache holds for (c, D).  The call
   finds c supported exactly when c is in the list it leaves in the memory cache. *)
C1_CachePrecedence ==
    [][ (/\ StartsResolver
         /\ call'.code # "USD"
         /\ call'.code \in ephList'
         /\ RateRows(rateDb, call'.code, call'.date) # {})
        => (/\ call'.pc = "done"
            /\ call'.rateReqs = 0
            /\ \A row \in RateRows(rateDb, call'.code, call'.date) :
                  /\ call'.ret = RetRate(row.rate_to_usd)
                  /\ call'.op = "convert_to_usd" =>
                        call'.usd = [kind |-> "money",
                                     v |-> QuantizeCents(call'.amount, row.rate_to_usd)]) ]_vars

\* C1 witness: a call answered from the durable cache while the memory cache holds
\* another rate for the same currency and date
C1_Witness ==
    /\ call.pc = "done" /\ call.op = "get_exchange_rate" /\ call.code # "USD"
    /\ call.rateReqs = 0
    /\ CacheKey(call.code, "USD", call.date) \in DOMAIN ephRate
    /\ \E row \in RateRows(rateDb, call.code, call.date) :
          /\ call.ret = RetRate(row.rate_to_usd)
          /\ ephRate[CacheKey(call.code, "USD", call.date)] # row.rate_to_usd

(* C2  Retry policy of _fetch_rate_from_api.  A call makes at most MAX_RETRIES upstream
   requests; it never retries after a successful attempt; after a failed request that
   is not the last allowed one it goes on to the next attempt; after MAX_RETRIES failed
   requests it returns None without raising; a successful attempt returns its rate. *)
C2_RetryPolicy ==
    (call.op \in FetchOps /\ call.rateReqs >= 1) =>
        /\ call.rateReqs <= MAX_RETRIES
        /\ call.pc = "attempt" => call.last # "ok"
        /\ (call.last \in FailedRequests /\ call.rateReqs < MAX_RETRIES) => call.pc = "attempt"
        /\ (call.last \in FailedRequests /\ call.rateReqs = MAX_RETRIES) =>
              (call.pc = "done" /\ call.ret = RetNone)
        /\ call.last = "ok" => (call.pc = "done" /\ call.ret.kind = "rate")

(* C5  Unsupported currency.  When is_currency_supported, get_exchange_rate or
   convert_to_usd is called for a currency whose registry row has is_supported = False,
   the call returns False / None / (None, None) and makes no upstream request, neither
   for a rate nor for the currency list. *)
C5_UnsupportedCurrency ==
    [][ (/\ call.pc # "attempt"
         /\ call'.op \in ResolverOps \cup {"is_currency_supported"}
         /\ [code |-> call'.code, is_supported |-> FALSE] \in registry)
        => (/\ call'.pc = "done"
            /\ call'.ret \in {RetNone, RetBool(FALSE)}
            /\ call'.usd = RetNone
            /\ call'.rateReqs = 0
            /\ call'.listReqs = 0) ]_vars

(* C6  Future date rejection.  get_exchange_rate(code, 'USD', date) for a non-USD code
   and a date later than today returns None, and no upstream request is made. *)
C6_FutureDateRejection ==
    [][ (/\ Starts("get_exchange_rate")
         /\ call'.code # "USD"
         /\ call'.date > today)
        => (/\ call'.pc = "done"
            /\ call'.ret = RetNone
            /\ call'.rateReqs = 0
            /\ call'.listReqs = 0) ]_vars

(* C7  A malformed or unexpected upstream response is terminal: after an attempt whose
   body cannot be parsed or lacks the target-currency rate, _fetch_rate_from_api has
   returned None and makes no further request. *)
C7_MalformedIsTerminal ==
    (call.op \in FetchOps /\ call.rateReqs >= 1 /\ call.last \in MalformedBodies) =>
        (call.pc = "done" /\ call.ret = RetNone)

(* C8, as claimed.  A step of _fetch_rate_from_api changes the durable or the memory
   rate cache only when it returns a rate, and then the entries of (currency, date) in
   both caches hold the returned rate and nothing else changes. *)
C8_WritesIffRate_Claimed ==
    [][ (call'.op \in FetchOps /\ (call.pc = "attempt" \/ call' # call)) =>
          IF call.pc = "attempt" /\ call'.pc = "done" /\ call'.ret.kind = "rate"
          THEN /\ \E row \in rateDb' :
                     /\ RateRows(rateDb', call'.code, call'.date) = {row}
                     /\ row.rate_to_usd = call'.ret.v
               /\ MemoryLookup(ephRate', call'.code, call'.date) = {call'.ret.v}
               /\ OtherRows(rateDb', call'.code, call'.date)
                      = OtherRows(rateDb, call'.code, call'.date)
               /\ OtherEntries(ephRate', call'.code, call'.date)
                      = OtherEntries(ephRate, call'.code, call'.date)
          ELSE rateDb' = rateDb /\ ephRate' = ephRate ]_vars

(* C8, amended.  As claimed, except that the durable row holds the returned rate
   rounded to the 6 decimal places of its column (a multiple of 10^-6 at most half a
   unit of the 6th place away), while the memory cache holds the returned rate. *)
C8_WritesIffRate ==
    [][ (call'.op \in FetchOps /\ (call.pc = "attempt" \/ call' # call)) =>
          IF call.pc = "attempt" /\ call'.pc = "done" /\ call'.ret.kind = "rate"
          THEN /\ \E row \in rateDb' :
                     /\ RateRows(rateDb', call'.code, call'.date) = {row}
                     /\ row.rate_to_usd % 10 = 0
                     /\ row.rate_to_usd - call'.ret.v \in (0 - 5)..5
               /\ MemoryLookup(ephRate', call'.code, call'.date) = {call'.ret.v}
               /\ OtherRows(rateDb', call'.code, call'.date)
                      = OtherRows(rateDb, call'.code, call'.date)
               /\ OtherEntries(ephRate', call'.code, call'.date)
                      = OtherEntries(ephRate, call'.code, call'.date)
          ELSE rateDb' = rateDb /\ ephRate' = ephRate ]_vars

\* C8 witness: a fetch returned a rate with a 7th decimal; the memory cache holds it,
\* the durable row holds it rounded
C8_Witness ==
    /\ call.pc = "done" /\ call.op = "_fetch_rate_from_api" /\ call.ret.kind = "rate"
    /\ call.rateReqs >= 1
    /\ MemoryLookup(ephRate, call.code, call.date) = {call.ret.v}
    /\ \E row \in RateRows(rateDb, call.code, call.date) : row.rate_to_usd # call.ret.v

(* C9  is_currency_supported is decided by the durable registry: a call returns True
   if the code is USD and otherwise exactly when the upper-cased code has a registry
   row with is_supported = True at the time of the call. *)
C9_SupportedByRegistry ==
    [][ Starts("is_currency_supported") =>
          call'.ret = RetBool(\/ call'.code = "USD"
                              \/ [code |-> call'.code, is_supported |-> TRUE] \in registry) ]_vars

(* C10  A failed explicit refresh leaves prior state untouched: when
   get_supported_currencies(refresh=True) cannot reach or parse the upstream, the
   failure is reported to the caller, and the registry and the memory list are the
   same after the call as before. *)
C10_FailedRefreshKeepsState ==
    [][ (Starts("refresh_supported_currencies") /\ call'.listFailed) =>
          (/\ call'.ret = RetRaised
           /\ registry' = registry
           /\ ephList' = ephList) ]_vars

----------------------------------------------------------------------------
(* Properties of the convert_currencies command *)

\* The run went through its whole loop and wrote the summary
RunCompleted == batch.pc = "ended" /\ batch.report = "summary" /\ ~batch.interrupted

UsdNative == {i \in batch.matched : records[i].currency = "USD"}
Unsupported == {i \in batch.matched : records[i].currency \notin batch.supported \cup {"USD"}}
Convertible ==
    {i \in batch.matched \ (UsdNative \cup Unsupported) :
        ~IsFutureDate(records[i].transaction_date, today)}

(* C3: a run over N matching records of which k are USD-native, m have unsupported
   currencies and the rest are convertible, with no upstream errors, reports
   converted = N - k - m and skipped = k + m, whatever the batch size *)
C3_BatchAggregate ==
    (/\ RunCompleted
     /\ ~batch.upstreamErrors
     /\ Convertible = batch.matched \ (UsdNative \cup Unsupported))
       => LET N == Cardinality(batch.matched)
              k == Cardinality(UsdNative)
              m == Cardinality(Unsupported)
          IN  /\ batch.converted = N - k - m
              /\ batch.skipped = k + m

(* C4: chunk boundaries have no effect; in particular every record that matches the
   filter when the run starts is processed exactly once by a completed run, and no
   other record is processed, in non-force as well as force mode *)
C4_ChunksHaveNoEffect ==
    RunCompleted =>
       \A i \in DOMAIN records : batch.times[i] = IF i \in batch.matched THEN 1 ELSE 0

----------------------------------------------------------------------------
(* Properties of the supported-currency registry *)

ListOps == {"get_supported_currencies", "refresh_supported_currencies"}

UpperCodes(S) == {upper(c) : c \in S}

UniqueCodes(reg) == Cardinality(RegistryCodes(reg)) = Cardinality(reg)

(* C11  Fallback on fetch failure.  When the upstream currency-list request of a call
   fails, get_supported_currencies does not raise: it returns the default list, every
   code of the default list is a supported row of the registry, and the memory cache
   holds the default list; the get_supported_currencies(refresh=False) call that
   follows returns that list without an upstream request. *)
C11_FallbackOnFailure ==
    [][ /\ call'.listFailed =>
              /\ call'.op \in ListOps => call'.ret = RetList(DEFAULT_SUPPORTED_CURRENCIES)
              /\ ephList' = DEFAULT_SUPPORTED_CURRENCIES
              /\ get_supported_codes(registry') = UpperCodes(DEFAULT_SUPPORTED_CURRENCIES)
        /\ (call.listFailed /\ call.pc = "done" /\ Starts("get_supported_currencies")) =>
              /\ call'.pc = "done"
              /\ call'.ret = RetList(DEFAULT_SUPPORTED_CURRENCIES)
              /\ call'.listReqs = 0 ]_vars

\* C11 witness: get_supported_currencies(refresh=False) fell back to the default list,
\* while the registry keeps an unsupported row of another currency
C11_Witness ==
    /\ call.op = "get_supported_currencies" /\ call.pc = "done"
    /\ call.listFailed /\ call.listReqs = 1
    /\ call.ret = RetList(DEFAULT_SUPPORTED_CURRENCIES)
    /\ ephList = DEFAULT_SUPPORTED_CURRENCIES
    /\ [code |-> "MMK", is_supported |-> FALSE] \in registry

(* C12  Registry reconciliation.  After a call whose currency-list request returned
   the code set S, the supported rows are exactly the upper-cased codes of S plus USD,
   and every row that existed before and is not among them is still there, unsupported.
   No step deletes a registry row, and no two rows share a code. *)
C12_RegistryReconciliation ==
    [][ /\ (call.pc # "attempt" /\ call'.listReqs = 1 /\ ~call'.listFailed) =>
              LET S == UpperCodes(ephList') IN
              /\ "USD" \in S
              /\ get_supported_codes(registry') = S
              /\ \A row \in registry :
                    row.code \notin S => [code |-> row.code, is_supported |-> FALSE] \in registry'
        /\ RegistryCodes(registry) \subseteq RegistryCodes(registry')
        /\ UniqueCodes(registry') ]_vars

\* C12 witness: a refresh answered with a list without MMK and with a lower-case key;
\* the MMK row stays, unsupported, and EUR is supported
C12_Witness ==
    /\ call.op = "refresh_supported_currencies" /\ call.pc = "done"
    /\ call.listReqs = 1 /\ ~call.listFailed
    /\ call.ret = RetList({"eur", "USD"})
    /\ registry = {[code |-> "USD", is_supported |-> TRUE],
                   [code |-> "EUR", is_supported |-> TRUE],
                   [code |-> "MMK", is_supported |-> FALSE]}

----------------------------------------------------------------------------
(* Properties of the record operations *)

ConversionRuns == {"command"} \cup OnDemandModes

\* This step did op to record i, in a conversion run
DoesTo(op, i) ==
    /\ batch'.did # batch.did
    /\ batch'.did.op = op
    /\ batch'.did.id = i

\* This step marks record i unconvertible, in a conversion run or by the admin action
Marks(i) ==
    \/ DoesTo("mark_unconvertible", i)
    \/ batch.pc = "idle" /\ batch'.mode = "admin_mark" /\ i \in batch'.matched

(* C13  mark_unconvertible changes only usd_convertible (to False) and
   usd_conversion_date (to a later time): value_usd, exchange_rate_used and the other
   fields of the record stay; on a record that is already unconvertible it changes
   nothing but the timestamp; no other record changes. *)
C13_MarkUnconvertibleFrame ==
    [][ \A i \in DOMAIN records :
          Marks(i) =>
             /\ records'[i] = [records[i] EXCEPT
                                 !.usd_convertible = FALSE,
                                 !.usd_conversion_date = records'[i].usd_conversion_date]
             /\ records'[i].usd_conversion_date > records[i].usd_conversion_date
             /\ \A j \in DOMAIN records : ~Marks(j) => records'[j] = records[j] ]_vars

\* C13 witness: a record that holds a conversion was marked unconvertible and still
\* holds its value_usd and exchange_rate_used
C13_Witness ==
    /\ batch.did.op = "mark_unconvertible"
    /\ ~records[batch.did.id].usd_convertible
    /\ records[batch.did.id].value_usd # NULL
    /\ records[batch.did.id].exchange_rate_used # NULL
    /\ records[batch.did.id].usd_conversion_date = batch.clock - 1

(* C14, as claimed.  set_usd_value(amount, rate) leaves the record converted, whatever
   it was before: value_usd = amount, exchange_rate_used = rate, usd_convertible = True
   and usd_conversion_date stamped. *)
C14_SetUsdValue_Claimed ==
    [][ \A i \in DOMAIN records :
          DoesTo("set_usd_value", i) =>
             /\ records'[i] = [records[i] EXCEPT
                                 !.value_usd = batch'.did.amount,
                                 !.exchange_rate_used = batch'.did.rate,
                                 !.usd_convertible = TRUE,
                                 !.usd_conversion_date = records'[i].usd_conversion_date]
             /\ records'[i].usd_conversion_date > records[i].usd_conversion_date ]_vars

(* C14, amended.  As claimed, except that exchange_rate_used holds the rate rounded to
   the 6 decimal places of its column. *)
C14_SetUsdValue ==
    [][ \A i \in DOMAIN records :
          DoesTo("set_usd_value", i) =>
             /\ records'[i] = [records[i] EXCEPT
                                 !.value_usd = batch'.did.amount,
                                 !.exchange_rate_used = records'[i].exchange_rate_used,
                                 !.usd_convertible = TRUE,
                                 !.usd_conversion_date = records'[i].usd_conversion_date]
             /\ records'[i].exchange_rate_used % 10 = 0
             /\ records'[i].exchange_rate_used - batch'.did.rate \in (0 - 5)..5
             /\ records'[i].usd_conversion_date > records[i].usd_conversion_date ]_vars

\* C14 witness: a forced run converted again a record stamped before the run, with a
\* rate that has a 7th decimal: the record holds the new amount and the rounded rate
C14_Witness ==
    /\ batch.did.op = "set_usd_value" /\ batch.force
    /\ LET txn == records[batch.did.id]
       IN  /\ txn.usd_convertible
           /\ txn.value_usd = batch.did.amount
           /\ txn.exchange_rate_used # batch.did.rate
           /\ txn.usd_conversion_date = batch.clock - 1

(* C15  Skipped records are not changed: no step of a conversion run (the command, the
   convert_transactions view, the admin action) changes a record whose currency is USD,
   or one that holds a value_usd while force is false. *)
C15_SkippedUnchanged ==
    [][ batch'.mode \in ConversionRuns =>
          \A i \in DOMAIN records :
             (\/ records[i].currency = "USD"
              \/ records[i].value_usd # NULL /\ ~batch'.force)
                => records'[i] = records[i] ]_vars

\* C15 witness: the command visited a USD record, skipped it and left it pending
C15_Witness ==
    /\ batch.mode = "command" /\ batch.did.op = "skip"
    /\ batch.times[batch.did.id] = 1
    /\ records[batch.did.id] = PendingRecord("USD")

(* C16  Terminal states are re-entered only under force: a conversion run with
   force = false does not attempt the conversion of a record that is marked
   unconvertible or that is converted. *)
C16_TerminalNeedsForce ==
    [][ \A i \in DOMAIN records :
          (/\ ~batch'.force
           /\ \/ DoesTo("mark_unconvertible", i)
              \/ DoesTo("set_usd_value", i)
              \/ DoesTo("error", i))
            => (records[i].usd_convertible /\ records[i].value_usd = NULL) ]_vars

----------------------------------------------------------------------------
(* Properties of the conversion runs *)

\* The run went through all its records and reported
RunReported ==
    /\ batch.pc = "ended" /\ ~batch.interrupted
    /\ batch.report \in {"summary", "response"}

(* C17  An exception raised while one record is processed does not abort the run: the
   step counts exactly one error and the run goes on with the rest of its records, and
   when the run has reported, its error count is the number of records that raised and
   every record of the run that comes after such a record was processed. *)
C17_ErrorDoesNotAbort ==
    [][ /\ \A i \in DOMAIN records :
              DoesTo("error", i) =>
                 /\ batch'.batch_errors = batch.batch_errors + 1
                 /\ batch'.batch_converted = batch.batch_converted
                 /\ batch'.batch_skipped = batch.batch_skipped
                 /\ batch'.pc = "batch"
                 /\ batch'.slice = Tail(batch.slice)
                 /\ records' = records
        /\ RunReported' =>
              /\ batch'.errors = Cardinality(batch'.errored)
              /\ \A i \in batch'.errored : \A j \in batch'.matched :
                    j > i => batch'.times[j] >= 1 ]_vars

(* C18  A dry run persists no change: the dry-run invocation of the command leaves the
   records, the durable rate cache and the registry as they were, whatever the other
   options are. *)
C18_DryRunPersistsNothing ==
    [][ (batch.pc = "idle" /\ batch'.mode = "command" /\ batch'.pc # "idle"
         /\ batch'.dry_run) =>
           /\ batch'.pc = "ended"
           /\ records' = records
           /\ rateDb' = rateDb
           /\ registry' = registry ]_vars

(* C19  No exception crosses the conversion contract: whatever fails (unsupported
   currency, rate unavailable, network failure, future date, malformed answer),
   get_exchange_rate returns None and convert_to_usd returns (None, None); neither
   raises. *)
C19_NoExceptionCrosses ==
    (call.op \in ResolverOps /\ call.pc = "done") =>
        /\ call.ret.kind \in {"None", "rate"}
        /\ call.op = "convert_to_usd" =>
              (call.usd.kind \in {"None", "money"} /\ (call.usd = RetNone <=> call.ret = RetNone))

----------------------------------------------------------------------------
(* Properties of concurrent callers *)

\* The caller whose upsert was the last one so far
LastUpserter(w) ==
    /\ writers[w].upserted > 0
    /\ \A v \in DOMAIN writers : writers[v].upserted <= writers[w].upserted

(* C20  Concurrent writers of the same new rate are benign: when callers resolve
   concurrently a (currency, date) the durable cache does not hold, no caller gets an
   exception, the durable cache never holds more than one row for the key, and once an
   upsert was done the row holds the rate of the last upsert. *)
C20_ConcurrentWritersBenign ==
    /\ \A w \in DOMAIN writers :
          writers[w].pc = "done" => writers[w].ret.kind = "rate"
    /\ Cardinality(RateRows(rateDb, RaceCurrency, RaceDate)) <= 1
    /\ \A w \in DOMAIN writers :
          LastUpserter(w) =>
             RateRows(rateDb, RaceCurrency, RaceDate) =
                {[currency |-> RaceCurrency, date |-> RaceDate,
                  rate_to_usd |-> writers[w].stored]}

\* C20 witness: two callers fetched different rates for the missing key, the INSERT of
\* one met the row of the other, and both returned their rate
C20_Witness ==
    /\ \A w \in DOMAIN writers : writers[w].pc = "done" /\ writers[w].upserted > 0
    /\ \E v, w \in DOMAIN writers :
          /\ writers[v].stored # writers[w].stored
          /\ writers[w].conflicts = 1
          /\ LastUpserter(w)

----------------------------------------------------------------------------
(* Properties of the durable rate cache *)

RateKeys(db) == {<<row.currency, row.date>> : row \in db}

(* C21  Durable rate entries are immutable and never evicted: no step of
   get_exchange_rate, of convert_to_usd or of a conversion run (every step but those of
   a direct call of the private _fetch_rate_from_api) changes or deletes a row of the
   durable cache; the set of rows only grows. *)
C21_DurableEntriesImmutable ==
    [][ call'.op # "_fetch_rate_from_api" => rateDb \subseteq rateDb' ]_vars

\* C21 witness: convert_to_usd fetched and stored a rate for one currency while the
\* durable cache held a row of another currency, which is still there
C21_Witness ==
    /\ call.op = "convert_to_usd" /\ call.pc = "done" /\ call.ret.kind = "rate"
    /\ call.rateReqs >= 1
    /\ RateRows(rateDb, call.code, call.date) # {}
    /\ \E row \in rateDb : row.currency # call.code

(* C22  Uniqueness of the durable rate cache: in every state there is at most one row
   per (currency, date), and a raw insert for a key that has a row raises and leaves
   the table as it was. *)
C22_DurableKeyUnique ==
    [][ /\ Cardinality(RateKeys(rateDb)) = Cardinality(rateDb)
        /\ Cardinality(RateKeys(rateDb')) = Cardinality(rateDb')
        /\ (Starts("create") /\ RateRows(rateDb, call'.code, call'.date) # {}) =>
              (call'.ret = RetRaised /\ rateDb' = rateDb) ]_vars

\* C22 witness: a raw insert was rejected for a key that holds a row, while a raw
\* insert had created the row of the other currency
C22_Witness ==
    /\ call.op = "create" /\ call.pc = "done" /\ call.ret = RetRaised
    /\ Cardinality(RateRows(rateDb, call.code, call.date)) = 1
    /\ Cardinality(rateDb) = 2

----------------------------------------------------------------------------
(* Properties of the memory cache *)

(* C23  The memory cache is never authoritative: in every state between calls,
   is_currency_supported(code) and get_exchange_rate(code, 'USD', date) give the same
   result with the memory cache as it is and with the memory cache emptied just before
   the call, the upstream answering the same way.  The states compared are those where
   the emptied cache does not make the call ask the upstream for a list that the call
   with the cache does not ask for. *)
C23_EphemeralNotAuthoritative ==
    (NoCallRunning /\ (ephList = {} \/ get_supported_codes(registry) # {})) =>
        \A code \in RawCodes : \A ans \in AnswersFor(code, FALSE) :
           /\ IsCurrencySupported(registry, ephList, code, ans).result
                 = IsCurrencySupported(registry, {}, code, ans).result
           /\ \A date \in Dates :
                 ResolveRate(registry, ephList, rateDb, ephRate, today, code, date, ans).ret
                   = ResolveRate(registry, {}, rateDb, <<>>, today, code, date, ans).ret

(* C24  Memory cache usage as test_memory_cache_usage asserts it: when the memory
   cache holds a rate for the requested (from, 'USD', date), get_exchange_rate returns
   that rate after exactly one read of the memory cache and without a database query,
   also when the durable cache holds a row of the same currency and date. *)
C24_MemoryCacheUsage ==
    [][ (/\ Starts("get_exchange_rate")
         /\ call'.code # "USD"
         /\ MemoryLookup(ephRate, call'.code, call'.date) # {})
        => (/\ call'.pc = "done"
            /\ \E r \in MemoryLookup(ephRate, call'.code, call'.date) : call'.ret = RetRate(r)
            /\ CacheReads(rateDb, call'.code, call'.date, call'.code \in ephList') = 1
            /\ DatabaseHits(ephList, call'.code, call'.code \in ephList') = 0) ]_vars

----------------------------------------------------------------------------
(* Properties of convert_to_usd *)

\* The claim's examples: 100.00 * 1.10 = 110.00, 1000.50 * 0.85 = 850.42,
\* 50.75 * 1.25 = 63.44
RoundingExamples ==
    {<<10000, 11000000, 11000>>, <<100050, 8500000, 85042>>, <<5075, 12500000, 6344>>}

\* u cents is amount * rate rounded half-even to whole cents
IsHalfEven(amount, rate, u) ==
    LET d == amount * rate - u * RateScale
    IN  /\ 2 * d <= RateScale
        /\ 2 * d >= 0 - RateScale
        /\ (2 * d = RateScale \/ 2 * d = 0 - RateScale) => u % 2 = 0

\* This step is a call of convert_to_usd that does no I/O: it makes no upstream
\* request, no cache read and no database query, and writes nothing
NoIO ==
    /\ call'.pc = "done"
    /\ call'.rateReqs = 0 /\ call'.listReqs = 0
    /\ ConvertCacheReads(call'.amount, call'.code, rateDb, call'.date,
                         call'.code \in ephList') = 0
    /\ ConvertDatabaseHits(call'.amount, ephList, call'.code, call'.code \in ephList') = 0
    /\ UNCHANGED <<registry, ephList, rateDb, ephRate>>

(* C25  Rounding: for every positive amount and resolved rate r, convert_to_usd
   returns (u, r) where u is amount * r rounded half-even to 2 decimal places; in
   particular 100.00 * 1.10 gives 110.00, 1000.50 * 0.85 gives 850.42 and
   50.75 * 1.25 gives 63.44. *)
C25_Rounding ==
    (/\ call.op = "convert_to_usd" /\ call.pc = "done"
     /\ call.amount > 0 /\ call.code # "USD" /\ call.ret.kind = "rate")
       => /\ call.usd.kind = "money"
          /\ \A row \in RateRows(rateDb, call.code, call.date) :
                call.ret = RetRate(row.rate_to_usd)
          /\ call.amount <= 100 => IsHalfEven(call.amount, call.ret.v, call.usd.v)
          /\ \A e \in RoundingExamples :
                (call.amount = e[1] /\ call.ret.v = e[2]) => call.usd.v = e[3]

\* C25 witness: 1000.50 EUR at 0.85 gave 850.42, the tie rounded to the even cent
C25_Witness ==
    /\ call.op = "convert_to_usd" /\ call.pc = "done"
    /\ call.amount = 100050 /\ call.ret = RetRate(8500000)
    /\ call.usd = [kind |-> "money", v |-> 85042]

(* C26  Zero/negative guard: convert_to_usd with an absent, a zero or a negative amount
   returns (None, None), for every currency and date, and does no I/O: no upstream
   request, no cache read, no database query, no write. *)
C26_InvalidAmountGuard ==
    [][ (Starts("convert_to_usd") /\ (call'.amount = NULL \/ call'.amount <= 0)) =>
          (/\ call'.ret = RetNone
           /\ call'.usd = RetNone
           /\ NoIO) ]_vars

\* C26 witness: an amount of 0.00 in a supported currency whose rate is in the
\* durable cache was answered (None, None)
C26_Witness ==
    /\ call.op = "convert_to_usd" /\ call.pc = "done"
    /\ call.amount = 0 /\ call.code = "EUR"
    /\ RateRows(rateDb, call.code, call.date) # {}
    /\ call.usd = RetNone /\ call.ret = RetNone

(* C27  USD identity: for every positive amount, every date and every letter case of
   the code 'USD', convert_to_usd returns the amount as it is and the rate 1.0, and
   does no I/O. *)
C27_UsdIdentity ==
    [][ (/\ Starts("convert_to_usd")
         /\ call'.amount > 0
         /\ call'.code \in {"USD", "usd"}) =>
          (/\ call'.ret = RetRate(RateScale)
           /\ call'.usd = [kind |-> "money", v |-> call'.amount]
           /\ NoIO) ]_vars

\* C27 witness: 50.75 USD at a future date was answered (50.75, 1.0), while the
\* memory cache holds no currency list
C27_Witness ==
    /\ call.op = "convert_to_usd" /\ call.pc = "done"
    /\ call.code = "USD" /\ call.date > today /\ call.amount = 5075
    /\ call.usd = [kind |-> "money", v |-> 5075] /\ call.ret = RetRate(RateScale)
    /\ ephList = {}

----------------------------------------------------------------------------
(* Properties of the records and of the counts reported about them *)

(* C28  The conversion statistics partition the records: in every state of the table
   the counts of converted, unconvertible, pending and USD-native records add up to
   the total. *)
C28_StatsPartition ==
    LET stats == conversion_stats(records)
    IN  stats.total_transactions =
           stats.converted_transactions + stats.unconvertible_transactions
           + stats.pending_transactions + stats.usd_transactions

\* The records the run has been through, and those it gave a USD value
Visited == {i \in DOMAIN records : batch.times[i] >= 1}
Committed ==
    {i \in DOMAIN records :
        records[i].usd_conversion_date >= 1 /\ records[i].usd_convertible}

(* C29  The summary counters of the command match what was committed: at the summary
   of a run, completed or interrupted, converted is the number of records that got a
   USD value in the run, skipped is the number of records skipped or marked
   unconvertible, and processed = converted + skipped + errors. *)
C29_SummaryMatchesCommitted ==
    (batch.mode = "command" /\ batch.pc = "ended" /\ batch.report = "summary") =>
        /\ batch.converted = Cardinality(Committed)
        /\ batch.skipped = Cardinality(Visited \ (Committed \cup batch.errored))
        /\ batch.processed = batch.converted + batch.skipped + batch.errors

(* C30  In every state of a record, after any sequence of set_usd_value and
   mark_unconvertible calls of the command, the view and the admin actions, value_usd
   is present exactly when exchange_rate_used is present, and usd_conversion_date is
   present whenever value_usd is present or usd_convertible is false. *)
C30_RecordFieldsConsistent ==
    \A i \in DOMAIN records :
       /\ records[i].value_usd # NULL <=> records[i].exchange_rate_used # NULL
       /\ (records[i].value_usd # NULL \/ ~records[i].usd_convertible) =>
             records[i].usd_conversion_date # NULL

\* C30 witness: a record that was pending was converted by a run and holds its
\* amount, its rate and its stamp, next to a record the run marked unconvertible
C30_Witness ==
    /\ batch.pc = "ended" /\ batch.mode \in ConversionRuns
    /\ \E i, j \in DOMAIN records :
          /\ records[i].usd_conversion_date >= 1 /\ records[i].usd_convertible
          /\ records[i].value_usd # NULL /\ records[i].exchange_rate_used # NULL
          /\ records[j].usd_conversion_date >= 1 /\ ~records[j].usd_convertible
          /\ records[j].value_usd = NULL /\ records[j].exchange_rate_used = NULL

====
